---- MODULE Spec2Model ----
(***************************************************************************)
(* Model of mkarusala/ticket-booking-app.                                  *)
(*                                                                         *)
(* Part I   the service process of app.js: one Express application with    *)
(*          one route, GET /, started by app.listen(PORT).                 *)
(* Part II  the delivery pipeline of the Jenkinsfile: seven stages of      *)
(*          tool invocations, each of which may succeed or fail.           *)
(*                                                                         *)
(* ServiceSpec is the specification of Part I, PipelineSpec that of        *)
(* Part II; Spec runs the two side by side.                                *)
(***************************************************************************)
EXTENDS Integers, Sequences, FiniteSets, TLC

VARIABLES
  procState,    \* "starting" | "listening" | "exited" | "terminated"
  portFree,     \* port 3000 can be bound when app.listen runs (app.js:14)
  processEnv,   \* process.env: a set of <<name, value>> pairs (app.js:10)
  requests,     \* the requests received so far, in arrival order
  responses,    \* request index -> the response sent for it
  \* ---- the pipeline run (Jenkinsfile) ----
  buildNumber,          \* env.BUILD_NUMBER of the run
  commit,               \* the revision that checkout scm checks out
  hasLockfile,          \* package-lock.json is in the workspace
  hasIntegrationScript, \* package.json defines an integration-test script
  manifest,             \* k8s/deployment.yaml in the workspace: [name, image]
  pc,                   \* the step the run is at
  failedStage,          \* 0, or the number of the stage that failed
  result,               \* "RUNNING" | "SUCCESS" | "FAILURE"
  gitCommitShort,       \* env.GIT_COMMIT_SHORT (<<>> while unset)
  imageTag,             \* env.IMAGE_TAG (<<>> while unset)
  buildAttempts,        \* docker.build invocations made so far
  lastBuild,            \* outcome of the latest docker.build
  unit,                 \* branch 'Unit Tests' of stage 4
  integ,                \* branch 'Integration Tests' of stage 4
  localImages,          \* the agent's docker image store: <<tag, image>>
  registry,             \* the registry: <<tag, image>>
  cluster,              \* the manifests this run applied to the cluster
  tmpManifest,          \* deployment.yaml in TMP_DIR (NoManifest before cp)
  deployed,             \* the deployment this run applied (or NoManifest)
  podsReady,            \* "unknown" | "ready" | "timeout": the applied pods
  log,                  \* the tool invocations of the run, in order
  message               \* what the post section echoes

svcVars == <<procState, portFree, processEnv, requests, responses>>

pipeInputs == <<buildNumber, commit, hasLockfile, hasIntegrationScript,
                manifest>>

k8sVars == <<tmpManifest, deployed, podsReady>>

pipeVars == <<pipeInputs, k8sVars, pc,
              failedStage, result, gitCommitShort, imageTag, buildAttempts,
              lastBuild, unit, integ, localImages, registry, cluster, log,
              message>>

vars == <<svcVars, pipeVars>>

----------------------------------------------------------------------------
(* Part I: the service process (src/app.js)                                *)

\* Bound: how many requests one process lifetime receives in the model.
MaxRequests == 3

\* const PORT = 3000;
PORT == 3000

\* The values NODE_ENV is set to in the model, the empty string included.
EnvValues == {"", "staging", "production", "development"}

\* process.env at process start: NODE_ENV unset, or set to one value.
ProcessEnvs == {{}} \cup {{<<"NODE_ENV", v>>} : v \in EnvValues}

Methods == {"GET", "HEAD", "POST", "OPTIONS"}
Paths == {"/", "/tickets"}
Requests == [method : Methods, path : Paths]

\* process.env.NODE_ENV is defined (the variable is set, to any string).
IsSet(env, name) == \E p \in env : p[1] = name

\* process.env.NODE_ENV of a process whose environment sets it.
EnvLookup(env, name) == (CHOOSE p \in env : p[1] = name)[2]

\* Faulty variant: the environment name is hard-coded.
EnvironmentMutAlways(env) == "production"

\* process.env.NODE_ENV || 'production': JavaScript's || yields its right
\* operand when the left one is falsy; undefined and the empty string are
\* the falsy values a process.env lookup can produce.
Environment(env) ==
  IF IsSet(env, "NODE_ENV") /\ EnvLookup(env, "NODE_ENV") # ""
    THEN EnvLookup(env, "NODE_ENV")
    ELSE "production"

\* Faulty variant: the body lacks the version field.
RootHandlerMutNoVersion(env) ==
  [status |-> 200,
   body |-> [message |-> "Ticket Booking Service is up and running!",
             environment |-> Environment(env)]]

\* The handler of app.get('/'): res.status(200).send({...}).
RootHandler(env) ==
  [status |-> 200,
   body |-> [message |-> "Ticket Booking Service is up and running!",
             version |-> "1.0.0",
             environment |-> Environment(env)]]

\* The methods the single route app.get('/') answers: Express routes HEAD
\* to a GET route that has no HEAD handler of its own.
RouteHandles(method) == method \in {"GET", "HEAD"}

\* What the application answers to one request, given process.env.  The
\* only route is GET /.  A HEAD / runs the same handler and is sent without
\* the body; an OPTIONS / that no route handles is answered by the router
\* with 200 and the Allow list of the path's routes; everything else falls
\* through to the framework's final handler, 404.
Dispatch(req, env) ==
  IF req.path = "/" /\ req.method = "GET" THEN RootHandler(env)
  ELSE IF req.path = "/" /\ RouteHandles(req.method)
    THEN [status |-> RootHandler(env).status, body |-> [head |-> "no body"]]
  ELSE IF req.path = "/" /\ req.method = "OPTIONS"
    THEN [status |-> 200, body |-> [allow |-> "GET,HEAD"]]
  ELSE [status |-> 404, body |-> [error |-> "Not Found"]]

SvcInit ==
  /\ procState = "starting"
  /\ portFree \in BOOLEAN
  /\ processEnv \in ProcessEnvs
  /\ requests = <<>>
  /\ responses = <<>>

\* Faulty variant: the process serves although the port could not be bound.
ListenMutIgnoresBind ==
  /\ procState = "starting"
  /\ procState' = "listening"
  /\ UNCHANGED <<pipeVars, portFree, processEnv, requests, responses>>

\* app.listen(PORT, callback): the bind succeeds and the process serves.
Listen ==
  /\ procState = "starting"
  /\ portFree
  /\ procState' = "listening"
  /\ UNCHANGED <<pipeVars, portFree, processEnv, requests, responses>>

\* app.listen(PORT, ...): the bind fails (port in use).  The server emits
\* 'error'; the program registers no handler for it and holds nothing else
\* that keeps it running, so the process ends.  It is not started again.
BindFail ==
  /\ procState = "starting"
  /\ ~portFree
  /\ procState' = "exited"
  /\ UNCHANGED <<pipeVars, portFree, processEnv, requests, responses>>

\* A request arrives on the listening socket; its handler has not run yet.
Receive(req) ==
  /\ procState = "listening"
  /\ Len(requests) < MaxRequests
  /\ requests' = Append(requests, req)
  /\ UNCHANGED <<pipeVars, portFree, procState, processEnv, responses>>

Pending == {i \in 1..Len(requests) : i \notin DOMAIN responses}

\* Faulty variant: an unmatched request takes the process down.
HandleRequestMutCrashOn404(i) ==
  /\ procState = "listening"
  /\ i \in Pending
  /\ responses' = [j \in DOMAIN responses \cup {i} |->
                     IF j = i THEN Dispatch(requests[i], processEnv)
                     ELSE responses[j]]
  /\ procState' = IF Dispatch(requests[i], processEnv).status = 404
                    THEN "exited" ELSE procState
  /\ UNCHANGED <<pipeVars, portFree, processEnv, requests>>

\* Faulty variant: the handler keeps state between requests, and what it
\* answers depends on how many responses were sent before.
HandleRequestMutCounts(i) ==
  /\ procState = "listening"
  /\ i \in Pending
  /\ responses' = [j \in DOMAIN responses \cup {i} |->
                     IF j = i
                       THEN IF Cardinality(DOMAIN responses) = 0
                              THEN Dispatch(requests[i], processEnv)
                              ELSE Dispatch(requests[i],
                                            {<<"NODE_ENV", "served">>})
                     ELSE responses[j]]
  /\ UNCHANGED <<pipeVars, portFree, procState, processEnv, requests>>

\* The application handles one received request and sends its response.
\* Requests in flight are handled in any order.
HandleRequest(i) ==
  /\ procState = "listening"
  /\ i \in Pending
  /\ responses' = [j \in DOMAIN responses \cup {i} |->
                     IF j = i THEN Dispatch(requests[i], processEnv)
                     ELSE responses[j]]
  /\ UNCHANGED <<pipeVars, portFree, procState, processEnv, requests>>

\* The process is terminated from outside (a signal); requests in flight
\* are never answered.
Terminate ==
  /\ procState = "listening"
  /\ procState' = "terminated"
  /\ UNCHANGED <<pipeVars, portFree, processEnv, requests, responses>>

SvcNext ==
  \/ Listen
  \/ BindFail
  \/ \E req \in Requests : Receive(req)
  \/ \E i \in 1..MaxRequests : HandleRequest(i)
  \/ Terminate

----------------------------------------------------------------------------
(* Part II: the delivery pipeline (src/Jenkinsfile)                        *)
(*                                                                         *)
(* A run is a sequence of tool invocations.  Whether an invocation         *)
(* succeeds is decided outside the pipeline, so each step takes its        *)
(* outcome as an input.  A stage whose step fails ends the stages: the     *)
(* remaining stages are skipped and the post section runs.  The sh step    *)
(* runs its script with -xe, so a script stops at its first command that   *)
(* exits non-zero, unless the command is the left side of || or &&.        *)

\* Bound: the build numbers of the model are 1..MaxBuildNumber.
MaxBuildNumber == 2

\* retry(2)
RetryCount == 2

\* DOCKER_REPO = 'yourdockerhub/ticket-booking-app'
DOCKER_REPO == "yourdockerhub/ticket-booking-app"

\* APP_NAME = 'ticket-booking-service'
APP_NAME == "ticket-booking-service"

\* The image references a deployment manifest can carry: the text the sed
\* of stage 7 looks for, or the literal reference of the documented manifest.
Placeholder == <<"IMAGE_TAG_PLACEHOLDER">>

LiteralImage == <<"mkarusala/ticket-booking-app", "latest">>

\* metadata.name of the deployment: the documented one, or APP_NAME.
DeploymentNames == {"ticket-booking-app", APP_NAME}

Manifests ==
  [name : DeploymentNames, image : {Placeholder, LiteralImage}]

NoManifest == [name |-> "", image |-> <<>>]

\* s|IMAGE_TAG_PLACEHOLDER|${IMAGE_TAG}|g on the image reference.
Substitute(image, tag) == IF image = Placeholder THEN tag ELSE image

\* Revisions: <<the abbreviated hash git rev-parse --short prints, the rest>>.
Commits == {<<"a1b2c3d", "e4f5a6b7">>, <<"9f8e7d6", "c5b4a392">>}

\* sh(script: "git rev-parse --short HEAD", returnStdout: true).trim()
ShortCommit(c) == c[1]

\* Faulty variant: the tag leaves the build number out.
ImageTagMutNoBuildNumber(repo, bn, short) == <<repo, 0, short>>

\* "${env.DOCKER_REPO}:${env.BUILD_NUMBER}-${env.GIT_COMMIT_SHORT}"
ImageTag(repo, bn, short) == <<repo, bn, short>>

\* "${env.DOCKER_REPO}:latest"
LatestTag(repo) == <<repo, "latest">>

\* Images: 0 is an image of an earlier run; n > 0 is the image that the
\* n-th docker.build of this run produced.
OldImage == 0

\* The image a store (the agent's, or the registry) holds under a tag.
HasTag(store, tag) == \E p \in store : p[1] = tag
ImageOf(store, tag) == (CHOOSE p \in store : p[1] = tag)[2]

\* docker tag / docker push / docker build: the tag now names this image.
SetTag(store, tag, img) == {p \in store : p[1] # tag} \cup {<<tag, img>>}

\* The stage each tool invocation belongs to.
StageOf(step) ==
  CASE step \in {"checkout scm", "git rev-parse"} -> 1
    [] step \in {"npm ci", "npm install", "npm run lint"} -> 2
    [] step \in {"docker build"} -> 3
    [] step \in {"npm test", "npm run -s integration-test",
                 "npm run integration-test"} -> 4
    [] step \in {"scan"} -> 5
    [] step \in {"docker login", "docker push tag", "docker tag latest",
                 "docker push latest"} -> 6
    [] step \in {"kubeconfig", "cp k8s", "sed", "kubectl apply deployment",
                 "kubectl apply service", "kubectl rollout status",
                 "kubectl describe deployment", "kubectl get pods"} -> 7
    [] OTHER -> 8

\* An entry of the run's log: a tool invocation and whether it succeeded.
Entry(step, ok) == [step |-> step, ok |-> ok]

\* How often a tool invocation appears in the run's log.
Count(step) == Cardinality({i \in 1..Len(log) : log[i].step = step})
Ran(step) == Count(step) > 0
Succeeded(step) == \E i \in 1..Len(log) : log[i].step = step /\ log[i].ok
Failed(step) == \E i \in 1..Len(log) : log[i].step = step /\ ~log[i].ok

PipeInit ==
  /\ buildNumber \in 1..MaxBuildNumber
  /\ commit \in Commits
  /\ hasLockfile \in BOOLEAN
  /\ hasIntegrationScript \in BOOLEAN
  /\ manifest \in Manifests
  /\ tmpManifest = NoManifest
  /\ deployed = NoManifest
  /\ podsReady = "unknown"
  /\ pc = "checkout"
  /\ failedStage = 0
  /\ result = "RUNNING"
  /\ gitCommitShort = <<>>
  /\ imageTag = <<>>
  /\ buildAttempts = 0
  /\ lastBuild = "none"
  /\ unit = "todo"
  /\ integ = "todo"
  /\ localImages \in {{}, {<<LatestTag(DOCKER_REPO), OldImage>>}}
  /\ registry \in {{}, {<<LatestTag(DOCKER_REPO), OldImage>>}}
  /\ cluster = {}
  /\ log = <<>>
  /\ message = <<>>

\* A step of stage n fails: the stage and the run fail, the remaining
\* stages are skipped, the post section is next.
FailStage(n) ==
  /\ pc' = "post"
  /\ failedStage' = n

\* ---- stage('1. Checkout') ----

\* checkout scm
Checkout(ok) ==
  /\ pc = "checkout"
  /\ log' = Append(log, Entry("checkout scm", ok))
  /\ IF ok THEN pc' = "revparse" /\ UNCHANGED failedStage
           ELSE FailStage(1)
  /\ UNCHANGED <<svcVars, pipeInputs, k8sVars, result, gitCommitShort,
                 imageTag, buildAttempts, lastBuild, unit, integ, localImages,
                 registry, cluster, message>>

\* env.GIT_COMMIT_SHORT = sh(script: "git rev-parse --short HEAD", ...)
RevParse(ok) ==
  /\ pc = "revparse"
  /\ log' = Append(log, Entry("git rev-parse", ok))
  /\ IF ok THEN /\ gitCommitShort' = ShortCommit(commit)
                /\ pc' = "install"
                /\ UNCHANGED failedStage
           ELSE /\ FailStage(1)
                /\ UNCHANGED gitCommitShort
  /\ UNCHANGED <<svcVars, pipeInputs, k8sVars, result, imageTag, buildAttempts,
                 lastBuild, unit, integ, localImages, registry, cluster,
                 message>>

\* ---- stage('2. Lint / Install') ----

\* if [ -f package-lock.json ]; then npm ci; else npm install; fi
Install(ok) ==
  /\ pc = "install"
  /\ log' = Append(log, Entry(IF hasLockfile THEN "npm ci" ELSE "npm install",
                                ok))
  /\ IF ok THEN pc' = "lint" /\ UNCHANGED failedStage
           ELSE FailStage(2)
  /\ UNCHANGED <<svcVars, pipeInputs, k8sVars, result, gitCommitShort,
                 imageTag, buildAttempts, lastBuild, unit, integ, localImages,
                 registry, cluster, message>>

LintMutBlocking(ok) ==
  /\ pc = "lint"
  /\ log' = Append(log, Entry("npm run lint", ok))
  /\ IF ok THEN pc' = "settag" /\ UNCHANGED failedStage
           ELSE FailStage(2)
  /\ UNCHANGED <<svcVars, pipeInputs, k8sVars, result, gitCommitShort,
                 imageTag, buildAttempts, lastBuild, unit, integ, localImages,
                 registry, cluster, message>>

\* npm run lint || echo "Lint warnings (non-blocking)"
Lint(ok) ==
  /\ pc = "lint"
  /\ log' = Append(log, Entry("npm run lint", ok))
  /\ pc' = "settag"
  /\ UNCHANGED <<svcVars, pipeInputs, k8sVars, failedStage, result,
                 gitCommitShort, imageTag, buildAttempts, lastBuild, unit,
                 integ, localImages, registry, cluster, message>>

\* ---- stage('3. Build Docker Image') ----

\* env.IMAGE_TAG =
\*   "${env.DOCKER_REPO}:${env.BUILD_NUMBER}-${env.GIT_COMMIT_SHORT}"
SetImageTag ==
  /\ pc = "settag"
  /\ imageTag' = ImageTag(DOCKER_REPO, buildNumber, gitCommitShort)
  /\ pc' = "build"
  /\ UNCHANGED <<svcVars, pipeInputs, k8sVars, failedStage, result,
                 gitCommitShort, buildAttempts, lastBuild, unit, integ,
                 localImages, registry, cluster, log, message>>

\* retry(2) { docker.build(env.IMAGE_TAG, "--pull .") }: the body runs, and
\* runs again after a failure while fewer than RetryCount runs were made.
\* The image build runs the Dockerfile, whose build stage ends with
\* RUN npm test: the build fails when those tests fail ("testfail") or for
\* any other reason ("error").
DockerBuild(outcome) ==
  /\ pc = "build"
  /\ log' = Append(log, Entry("docker build", outcome = "ok"))
  /\ buildAttempts' = buildAttempts + 1
  /\ lastBuild' = outcome
  /\ IF outcome = "ok"
       THEN /\ localImages' = SetTag(localImages, imageTag, buildAttempts + 1)
            /\ pc' = "tests"
            /\ UNCHANGED failedStage
       ELSE /\ UNCHANGED localImages
            /\ IF buildAttempts + 1 < RetryCount
                 THEN pc' = "build" /\ UNCHANGED failedStage
                 ELSE FailStage(3)
  /\ UNCHANGED <<svcVars, pipeInputs, k8sVars, result, gitCommitShort,
                 imageTag, unit, integ, registry, cluster, message>>

\* ---- stage('4. Tests (parallel)') ----

\* The two branches run concurrently and both run to their end; the stage
\* fails when a branch failed.
BranchDone(b) == b \in {"passed", "failed"}

\* Faulty variant: a failed unit-test branch does not fail the stage.
AfterBranchMutIgnoreUnit(u, i) ==
  IF BranchDone(u) /\ BranchDone(i)
    THEN IF i = "failed"
           THEN FailStage(4)
           ELSE pc' = "scan" /\ UNCHANGED failedStage
    ELSE UNCHANGED <<pc, failedStage>>

AfterBranch(u, i) ==
  IF BranchDone(u) /\ BranchDone(i)
    THEN IF u = "failed" \/ i = "failed"
           THEN FailStage(4)
           ELSE pc' = "scan" /\ UNCHANGED failedStage
    ELSE UNCHANGED <<pc, failedStage>>

\* sh 'npm test -- --silent || { echo "Unit tests failed"; exit 1; }'
UnitTests(ok) ==
  /\ pc = "tests"
  /\ unit = "todo"
  /\ log' = Append(log, Entry("npm test", ok))
  /\ unit' = IF ok THEN "passed" ELSE "failed"
  /\ AfterBranch(unit', integ)
  /\ UNCHANGED <<svcVars, pipeInputs, k8sVars, result, gitCommitShort,
                 imageTag, buildAttempts, lastBuild, integ, localImages,
                 registry, cluster, message>>

\* if [ -f package.json ] && npm run -s integration-test >/dev/null 2>&1;
\* the condition runs the script when package.json defines it; it is false
\* when the script is not defined (npm exits non-zero) and when the script
\* exits non-zero.  Then the else branch echoes "No integration tests
\* script defined" and the sh step succeeds.  package.json exists: stage
\* 3's COPY package*.json succeeded.
IntegrationProbe(ok) ==
  /\ pc = "tests"
  /\ integ = "todo"
  /\ hasIntegrationScript \/ ~ok
  /\ log' = Append(log, Entry("npm run -s integration-test", ok))
  /\ integ' = IF ok THEN "probed" ELSE "passed"
  /\ AfterBranch(unit, integ')
  /\ UNCHANGED <<svcVars, pipeInputs, k8sVars, result, gitCommitShort,
                 imageTag, buildAttempts, lastBuild, unit, localImages,
                 registry, cluster, message>>

\* then npm run integration-test; the script runs a second time and its
\* exit status is the sh step's.
IntegrationRun(ok) ==
  /\ pc = "tests"
  /\ integ = "probed"
  /\ log' = Append(log, Entry("npm run integration-test", ok))
  /\ integ' = IF ok THEN "passed" ELSE "failed"
  /\ AfterBranch(unit, integ')
  /\ UNCHANGED <<svcVars, pipeInputs, k8sVars, result, gitCommitShort,
                 imageTag, buildAttempts, lastBuild, unit, localImages,
                 registry, cluster, message>>

\* ---- stage('5. Security / Image Scan (optional)') ----

\* Faulty variant: the run goes from the scan straight to the deploy.
ScanMutSkipsPush ==
  /\ pc = "scan"
  /\ log' = Append(log, Entry("scan", TRUE))
  /\ pc' = "kubeconfig"
  /\ UNCHANGED <<svcVars, pipeInputs, k8sVars, failedStage, result,
                 gitCommitShort, imageTag, buildAttempts, lastBuild, unit,
                 integ, localImages, registry, cluster, message>>

\* Two echo steps; the scanner call is commented out.
Scan ==
  /\ pc = "scan"
  /\ log' = Append(log, Entry("scan", TRUE))
  /\ pc' = "login"
  /\ UNCHANGED <<svcVars, pipeInputs, k8sVars, failedStage, result,
                 gitCommitShort, imageTag, buildAttempts, lastBuild, unit,
                 integ, localImages, registry, cluster, message>>

\* ---- stage('6. Push to Docker Hub') ----

\* docker.withRegistry('https://registry.hub.docker.com', credentials):
\* logs in to the registry before its body runs.
RegistryLogin(ok) ==
  /\ pc = "login"
  /\ log' = Append(log, Entry("docker login", ok))
  /\ IF ok THEN pc' = "push" /\ UNCHANGED failedStage
           ELSE FailStage(6)
  /\ UNCHANGED <<svcVars, pipeInputs, k8sVars, result, gitCommitShort,
                 imageTag, buildAttempts, lastBuild, unit, integ, localImages,
                 registry, cluster, message>>

\* def img = docker.image(env.IMAGE_TAG); img.push()
PushTag(ok) ==
  /\ pc = "push"
  /\ log' = Append(log, Entry("docker push tag",
                                ok /\ HasTag(localImages, imageTag)))
  /\ IF ok /\ HasTag(localImages, imageTag)
       THEN /\ registry' = SetTag(registry, imageTag,
                                  ImageOf(localImages, imageTag))
            /\ pc' = "taglatest"
            /\ UNCHANGED failedStage
       ELSE /\ FailStage(6)
            /\ UNCHANGED registry
  /\ UNCHANGED <<svcVars, pipeInputs, k8sVars, result, gitCommitShort,
                 imageTag, buildAttempts, lastBuild, unit, integ, localImages,
                 cluster, message>>

\* Faulty variant: latest is not re-tagged, so the push of latest sends
\* whatever image the agent already holds under it.
TagLatestMutSkip(ok) ==
  /\ pc = "taglatest"
  /\ log' = Append(log, Entry("docker tag latest", ok))
  /\ IF ok
       THEN /\ pc' = "pushlatest"
            /\ UNCHANGED <<failedStage, localImages>>
       ELSE /\ FailStage(6)
            /\ UNCHANGED localImages
  /\ UNCHANGED <<svcVars, pipeInputs, k8sVars, result, gitCommitShort,
                 imageTag, buildAttempts, lastBuild, unit, integ, registry,
                 cluster, message>>

\* sh "docker tag ${env.IMAGE_TAG} ${env.DOCKER_REPO}:latest"
TagLatest(ok) ==
  /\ pc = "taglatest"
  /\ log' = Append(log, Entry("docker tag latest",
                                ok /\ HasTag(localImages, imageTag)))
  /\ IF ok /\ HasTag(localImages, imageTag)
       THEN /\ localImages' = SetTag(localImages, LatestTag(DOCKER_REPO),
                                     ImageOf(localImages, imageTag))
            /\ pc' = "pushlatest"
            /\ UNCHANGED failedStage
       ELSE /\ FailStage(6)
            /\ UNCHANGED localImages
  /\ UNCHANGED <<svcVars, pipeInputs, k8sVars, result, gitCommitShort,
                 imageTag, buildAttempts, lastBuild, unit, integ, registry,
                 cluster, message>>

\* sh "docker push ${env.DOCKER_REPO}:latest"
PushLatest(ok) ==
  /\ pc = "pushlatest"
  /\ log' = Append(log, Entry("docker push latest",
                                ok /\ HasTag(localImages,
                                             LatestTag(DOCKER_REPO))))
  /\ IF ok /\ HasTag(localImages, LatestTag(DOCKER_REPO))
       THEN /\ registry' = SetTag(registry, LatestTag(DOCKER_REPO),
                                  ImageOf(localImages, LatestTag(DOCKER_REPO)))
            /\ pc' = "kubeconfig"
            /\ UNCHANGED failedStage
       ELSE /\ FailStage(6)
            /\ UNCHANGED registry
  /\ UNCHANGED <<svcVars, pipeInputs, k8sVars, result, gitCommitShort,
                 imageTag, buildAttempts, lastBuild, unit, integ, localImages,
                 cluster, message>>

\* ---- stage('7. Deploy to Kubernetes') ----

\* withCredentials([file(credentialsId: env.K8S_CREDS_ID, ...)])
Kubeconfig(ok) ==
  /\ pc = "kubeconfig"
  /\ log' = Append(log, Entry("kubeconfig", ok))
  /\ IF ok THEN pc' = "copy" /\ UNCHANGED failedStage
           ELSE FailStage(7)
  /\ UNCHANGED <<svcVars, pipeInputs, k8sVars, result, gitCommitShort,
                 imageTag, buildAttempts, lastBuild, unit, integ, localImages,
                 registry, cluster, message>>

\* TMP_DIR=$(mktemp -d); cp -r k8s/* "$TMP_DIR/"
CopyManifests(ok) ==
  /\ pc = "copy"
  /\ log' = Append(log, Entry("cp k8s", ok))
  /\ IF ok THEN /\ tmpManifest' = manifest
                /\ pc' = "sed"
                /\ UNCHANGED failedStage
           ELSE /\ FailStage(7)
                /\ UNCHANGED tmpManifest
  /\ UNCHANGED <<svcVars, pipeInputs, deployed, podsReady, result,
                 gitCommitShort, imageTag, buildAttempts, lastBuild, unit,
                 integ, localImages, registry, cluster, message>>

\* sed -i "s|IMAGE_TAG_PLACEHOLDER|${IMAGE_TAG}|g" ... || true: the copy is
\* rewritten when sed succeeds, and the script goes on either way.
Sed(ok) ==
  /\ pc = "sed"
  /\ log' = Append(log, Entry("sed", ok))
  /\ tmpManifest' =
       IF ok THEN [tmpManifest EXCEPT !.image = Substitute(@, imageTag)]
             ELSE tmpManifest
  /\ pc' = "applydeployment"
  /\ UNCHANGED <<svcVars, pipeInputs, deployed, podsReady, failedStage, result,
                 gitCommitShort, imageTag, buildAttempts, lastBuild, unit,
                 integ, localImages, registry, cluster, message>>

\* kubectl apply -f "$TMP_DIR"/deployment.yaml
ApplyDeployment(ok) ==
  /\ pc = "applydeployment"
  /\ log' = Append(log, Entry("kubectl apply deployment", ok))
  /\ IF ok THEN /\ cluster' = cluster \cup {"deployment"}
                /\ deployed' = tmpManifest
                /\ pc' = "applyservice"
                /\ UNCHANGED failedStage
           ELSE /\ FailStage(7)
                /\ UNCHANGED <<cluster, deployed>>
  /\ UNCHANGED <<svcVars, pipeInputs, tmpManifest, podsReady, result,
                 gitCommitShort, imageTag, buildAttempts, lastBuild, unit,
                 integ, localImages, registry, message>>

\* kubectl apply -f "$TMP_DIR"/service.yaml
ApplyService(ok) ==
  /\ pc = "applyservice"
  /\ log' = Append(log, Entry("kubectl apply service", ok))
  /\ IF ok THEN /\ cluster' = cluster \cup {"service"}
                /\ pc' = "rollout"
                /\ UNCHANGED failedStage
           ELSE /\ FailStage(7)
                /\ UNCHANGED cluster
  /\ UNCHANGED <<svcVars, pipeInputs, k8sVars, result, gitCommitShort,
                 imageTag, buildAttempts, lastBuild, unit, integ, localImages,
                 registry, message>>

\* The deployment that kubectl rollout status deployment/${APP_NAME} looks
\* up: the one this run applied, when it bears that name (the cluster
\* holds no deployment other than the one the manifests describe).
Watched(name) == IF deployed.name = name THEN deployed ELSE NoManifest

\* kubectl rollout status deployment/${APP_NAME} --timeout=120s || ( ... ):
\* when it succeeds the script ends with status 0.  ready: the pods of the
\* applied deployment become ready within the 120 s (they cannot while the
\* image reference is still the placeholder text).  The command succeeds
\* when the deployment it names exists and its pods become ready in time.
RolloutStatus(ready) ==
  LET ok == ready /\ Watched(APP_NAME) # NoManifest
  IN  /\ pc = "rollout"
      /\ ready => deployed.image # Placeholder
      /\ podsReady' = IF ready THEN "ready" ELSE "timeout"
      /\ log' = Append(log, Entry("kubectl rollout status", ok))
      /\ pc' = IF ok THEN "post" ELSE "describe"
      /\ UNCHANGED <<svcVars, pipeInputs, tmpManifest, deployed, failedStage,
                     result, gitCommitShort, imageTag, buildAttempts,
                     lastBuild, unit, integ, localImages, registry, cluster,
                     message>>

\* (kubectl describe deployment ${APP_NAME} && kubectl get pods -o wide &&
\* exit 1): the first command of the && list.  When it fails the list ends
\* with its status, the subshell exits non-zero and so does the script.
Describe(ok) ==
  /\ pc = "describe"
  /\ log' = Append(log, Entry("kubectl describe deployment", ok))
  /\ IF ok THEN pc' = "getpods" /\ UNCHANGED failedStage
           ELSE FailStage(7)
  /\ UNCHANGED <<svcVars, pipeInputs, k8sVars, result, gitCommitShort,
                 imageTag, buildAttempts, lastBuild, unit, integ, localImages,
                 registry, cluster, message>>

\* kubectl get pods -o wide && exit 1: the subshell exits with 1 after a
\* successful listing and with the listing's status after a failed one.
GetPods(ok) ==
  /\ pc = "getpods"
  /\ log' = Append(log, Entry("kubectl get pods", ok))
  /\ FailStage(7)
  /\ UNCHANGED <<svcVars, pipeInputs, k8sVars, result, gitCommitShort,
                 imageTag, buildAttempts, lastBuild, unit, integ, localImages,
                 registry, cluster, message>>

\* ---- post ----

\* always { cleanWs() }, then success { echo "... Deployed ${env.IMAGE_TAG}" }
\* or failure { echo 'Pipeline failed. ...' }.
Post ==
  /\ pc = "post"
  /\ log' = Append(log, Entry("cleanWs", TRUE))
  /\ result' = IF failedStage = 0 THEN "SUCCESS" ELSE "FAILURE"
  /\ message' = IF failedStage = 0 THEN <<"Deployed", imageTag>>
                                   ELSE <<"Pipeline failed">>
  /\ pc' = "done"
  /\ UNCHANGED <<svcVars, pipeInputs, k8sVars, failedStage, gitCommitShort,
                 imageTag, buildAttempts, lastBuild, unit, integ,
                 localImages, registry, cluster>>

PipeNext ==
  \/ \E ok \in BOOLEAN : Checkout(ok)
  \/ \E ok \in BOOLEAN : RevParse(ok)
  \/ \E ok \in BOOLEAN : Install(ok)
  \/ \E ok \in BOOLEAN : Lint(ok)
  \/ SetImageTag
  \/ \E outcome \in {"ok", "testfail", "error"} : DockerBuild(outcome)
  \/ \E ok \in BOOLEAN : UnitTests(ok)
  \/ \E ok \in BOOLEAN : IntegrationProbe(ok)
  \/ \E ok \in BOOLEAN : IntegrationRun(ok)
  \/ Scan
  \/ \E ok \in BOOLEAN : RegistryLogin(ok)
  \/ \E ok \in BOOLEAN : PushTag(ok)
  \/ \E ok \in BOOLEAN : TagLatest(ok)
  \/ \E ok \in BOOLEAN : PushLatest(ok)
  \/ \E ok \in BOOLEAN : Kubeconfig(ok)
  \/ \E ok \in BOOLEAN : CopyManifests(ok)
  \/ \E ok \in BOOLEAN : Sed(ok)
  \/ \E ok \in BOOLEAN : ApplyDeployment(ok)
  \/ \E ok \in BOOLEAN : ApplyService(ok)
  \/ \E ready \in BOOLEAN : RolloutStatus(ready)
  \/ \E ok \in BOOLEAN : Describe(ok)
  \/ \E ok \in BOOLEAN : GetPods(ok)
  \/ Post

----------------------------------------------------------------------------
(* Specifications                                                          *)

\* The service before it is started, as the pipeline runs.
SvcIdle ==
  /\ procState = "starting"
  /\ portFree = TRUE
  /\ processEnv = {}
  /\ requests = <<>>
  /\ responses = <<>>

\* A pipeline run that has not begun, as the service runs.
PipeIdle ==
  /\ PipeInit
  /\ buildNumber = 1
  /\ commit = <<"a1b2c3d", "e4f5a6b7">>
  /\ hasLockfile
  /\ hasIntegrationScript
  /\ manifest = [name |-> APP_NAME, image |-> Placeholder]
  /\ localImages = {}
  /\ registry = {}

ServiceInit == SvcInit /\ PipeIdle

ServiceSpec == ServiceInit /\ [][SvcNext]_vars

PipelineInit == PipeInit /\ SvcIdle

PipelineSpec == PipelineInit /\ [][PipeNext]_vars

Init == SvcInit /\ PipeInit

Next == SvcNext \/ PipeNext

Spec == Init /\ [][Next]_vars

----------------------------------------------------------------------------
(* Properties of the service process, checked under ServiceSpec            *)

GetRoot == [method |-> "GET", path |-> "/"]

\* The requests that have been answered.
Answered == DOMAIN responses

\* C1: every GET / that is answered is answered with status 200 and a body
\* that has exactly the fields message, version and environment, whatever
\* NODE_ENV is and whatever requests came before.
C1_RootAlways200 ==
  \A i \in Answered :
    requests[i] = GetRoot =>
      /\ responses[i].status = 200
      /\ DOMAIN responses[i].body = {"message", "version", "environment"}

\* A GET / answered after a request for another path was answered with 404,
\* in a process whose NODE_ENV is not set.
C1_Witness ==
  /\ processEnv = {}
  /\ \E i, j \in Answered :
       /\ i < j
       /\ requests[i].path = "/tickets"
       /\ responses[i].status = 404
       /\ requests[j] = GetRoot
       /\ responses[j].status = 200

\* C2 as claimed: the environment field is the value of NODE_ENV whenever
\* NODE_ENV is set, the empty string included, and "production" when it is
\* not set; message and version are the fixed strings.
C2_Original ==
  \A i \in Answered :
    requests[i] = GetRoot =>
      /\ responses[i].body.environment =
           IF \E p \in processEnv : p[1] = "NODE_ENV"
             THEN (CHOOSE p \in processEnv : p[1] = "NODE_ENV")[2]
             ELSE "production"
      /\ responses[i].body.message = "Ticket Booking Service is up and running!"
      /\ responses[i].body.version = "1.0.0"

\* C2, amended: the environment field is the value of NODE_ENV when
\* NODE_ENV is set to a non-empty string, and "production" when NODE_ENV is
\* not set or is set to the empty string; message and version are the
\* fixed strings.
C2_EnvironmentField ==
  \A i \in Answered :
    requests[i] = GetRoot =>
      /\ \A v \in EnvValues :
           processEnv = {<<"NODE_ENV", v>>} =>
             responses[i].body.environment = IF v = "" THEN "production" ELSE v
      /\ processEnv = {} => responses[i].body.environment = "production"
      /\ responses[i].body.message = "Ticket Booking Service is up and running!"
      /\ responses[i].body.version = "1.0.0"

\* NODE_ENV is set to the empty string and a GET / was answered with the
\* fallback.
C2_Witness ==
  /\ processEnv = {<<"NODE_ENV", "">>}
  /\ \E i \in Answered :
       /\ requests[i] = GetRoot
       /\ responses[i].body.environment = "production"

\* Handling a request (a response is sent) leaves the process listening.
HandlingKeepsListening ==
  (responses' # responses) =>
    (procState = "listening" /\ procState' = "listening")

\* C3 as claimed: every request other than GET / is answered with 404 (and
\* every GET / with 200).
C3_Original ==
  \A i \in Answered :
    /\ requests[i] # GetRoot => responses[i].status = 404
    /\ requests[i] = GetRoot => responses[i].status = 200

\* C3, amended: a request whose path is not /, or whose method is none of
\* GET, HEAD and OPTIONS, is answered with 404 (HEAD / and OPTIONS / are
\* answered with 200); handling any request leaves the process listening,
\* and every GET / is answered with 200 whatever was requested before.
C3_NotFoundKeepsServing ==
  /\ [](\A i \in Answered :
          /\ (requests[i].path # "/"
                \/ requests[i].method \notin {"GET", "HEAD", "OPTIONS"})
               => responses[i].status = 404
          /\ (requests[i].path = "/"
                /\ requests[i].method \in {"GET", "HEAD", "OPTIONS"})
               => responses[i].status = 200)
  /\ [][HandlingKeepsListening]_vars

\* Two requests were answered with 404, a GET / that arrived after them was
\* answered with 200, and the process is listening.
C3_Witness ==
  /\ procState = "listening"
  /\ Answered = {1, 2, 3}
  /\ requests[1] = [method |-> "POST", path |-> "/"]
  /\ responses[1].status = 404
  /\ requests[2] = [method |-> "GET", path |-> "/tickets"]
  /\ responses[2].status = 404
  /\ requests[3] = GetRoot
  /\ responses[3].status = 200

\* Sending a response changes nothing but the record of that one response.
HandlingIsSideEffectFree ==
  (responses' # responses) =>
    /\ procState' = procState
    /\ processEnv' = processEnv
    /\ requests' = requests
    /\ \A i \in Answered :
         i \in DOMAIN responses' /\ responses'[i] = responses[i]

\* C4: whatever the interleaving of the requests in flight, every response
\* is the one its request gets from a process that serves nothing else, any
\* two GET / responses carry the same message and version, and handling a
\* request leaves the process state as it was.
C4_RequestsIndependent ==
  /\ [](\A i \in Answered :
          /\ responses[i] = Dispatch(requests[i], processEnv)
          /\ \A j \in Answered :
               (requests[i] = GetRoot /\ requests[j] = GetRoot) =>
                 /\ responses[i].body.message = responses[j].body.message
                 /\ responses[i].body.version = responses[j].body.version
                 /\ responses[i] = responses[j])
  /\ [][HandlingIsSideEffectFree]_vars

\* Three GET / in flight at once were answered out of arrival order: the
\* third and the second are answered while the first still waits.
C4_Witness ==
  /\ Len(requests) = 3
  /\ \A i \in 1..3 : requests[i] = GetRoot
  /\ Answered = {2, 3}
  /\ Pending = {1}

\* C11: when the port cannot be bound the process never listens, never
\* receives or answers a request, and ends; once ended it stays ended (the
\* bind is not tried again).
C11_BindFailureIsFatal ==
  /\ [](~portFree =>
          /\ procState \in {"starting", "exited"}
          /\ requests = <<>>
          /\ responses = <<>>)
  /\ [][procState = "exited" =>
          /\ procState' = "exited"
          /\ requests' = requests
          /\ responses' = responses]_vars

\* The port was taken and the process has ended without serving.
C11_Witness ==
  /\ ~portFree
  /\ procState = "exited"
  /\ requests = <<>>
  /\ responses = <<>>

\* C12: a running process is either not yet listening or listening.  It
\* starts to listen once and never returns to not-listening; receiving and
\* handling requests never end it; a listening process ends only by the
\* external termination, which answers nothing.
C12_ListeningIsOneWay ==
  /\ [](procState \in {"starting", "listening", "exited", "terminated"})
  /\ [][procState = "listening" =>
          procState' \in {"listening", "terminated"}]_vars
  /\ [][procState' = "listening" =>
          procState \in {"starting", "listening"}]_vars
  /\ [][procState' = "starting" => procState = "starting"]_vars
  /\ [][(procState = "listening" /\ procState' = "terminated") =>
          (requests' = requests /\ responses' = responses)]_vars
  /\ [][(requests' # requests \/ responses' # responses) =>
          (procState = "listening" /\ procState' = "listening")]_vars

\* The process is still listening after it received and answered as many
\* requests as the model allows, a not-found one among them.
C12_Witness ==
  /\ procState = "listening"
  /\ Len(requests) = MaxRequests
  /\ Pending = {}
  /\ \E i \in Answered : responses[i].status = 404
  /\ \E i \in Answered : responses[i].status = 200

----------------------------------------------------------------------------
(* Properties of the pipeline, checked under PipelineSpec                  *)

\* The tag stage 3 is to compute for this run.
ExpectedTag == <<DOCKER_REPO, buildNumber, commit[1]>>

\* The tool invocations of stage n that the run made.
StageSteps(n) == {i \in 1..Len(log) : StageOf(log[i].step) = n}

\* How often the run executed the integration-test script of package.json:
\* both npm run invocations of stage 4 execute it when it is defined.
IntegrationScriptRuns ==
  IF hasIntegrationScript
    THEN Count("npm run -s integration-test")
           + Count("npm run integration-test")
    ELSE 0

\* The registry holds an image of this run under the tag.
RunImageAt(tag) == HasTag(registry, tag) /\ ImageOf(registry, tag) # OldImage

\* The test suite of the run failed: npm test of stage 4 exited non-zero,
\* or stage 3 failed because RUN npm test of the image build failed.
TestSuiteFailed ==
  \/ Failed("npm test")
  \/ failedStage = 3 /\ lastBuild = "testfail"

\* C5: when the test suite fails, the run ends in failure, no step of
\* stage 6 or of stage 7 is executed, no image reaches the registry and no
\* manifest is applied.
C5_TestFailureBlocksRelease ==
  TestSuiteFailed =>
    /\ StageSteps(6) = {} /\ StageSteps(7) = {}
    /\ \A p \in registry : p[2] = OldImage
    /\ cluster = {}
    /\ result # "SUCCESS"
    /\ pc = "done" => result = "FAILURE"

\* The unit tests failed while the integration branch passed, and the run
\* has ended.
C5_Witness ==
  /\ Failed("npm test")
  /\ integ = "passed"
  /\ lastBuild = "ok"
  /\ pc = "done"
  /\ result = "FAILURE"

\* C6 as claimed: after a stage failed no later stage runs, and at the end
\* of a failed run the cluster carries no manifest applied by the run and
\* the registry's latest does not point at an image of the run.
C6_FailedRunPromotesNothing ==
  /\ failedStage # 0 =>
       \A i \in 1..Len(log) : \/ StageOf(log[i].step) <= failedStage
                               \/ log[i].step = "cleanWs"
  /\ result = "FAILURE" =>
       /\ cluster = {}
       /\ ~RunImageAt(LatestTag(DOCKER_REPO))

\* C7 as claimed: when the rollout verification does not succeed the stage
\* and the run fail, and both diagnostic commands have been executed by
\* the time the failure is propagated, whatever their own outcome.
C7_RolloutFailureCollectsDiagnostics ==
  Failed("kubectl rollout status") =>
    /\ result # "SUCCESS"
    /\ pc = "done" => result = "FAILURE"
    /\ pc \in {"post", "done"} =>
         /\ failedStage = 7
         /\ Ran("kubectl describe deployment")
         /\ Ran("kubectl get pods")

\* C8: in a run that ends in success the image the run built is in the
\* registry under IMAGE_TAG and under latest, latest names the same image
\* as IMAGE_TAG, and both pushes were made before the first kubectl apply.
C8_SuccessPublishedBothTags ==
  /\ result = "SUCCESS" =>
       /\ HasTag(localImages, imageTag)
       /\ ImageOf(localImages, imageTag) = buildAttempts
       /\ RunImageAt(imageTag)
       /\ ImageOf(registry, imageTag) = ImageOf(localImages, imageTag)
       /\ RunImageAt(LatestTag(DOCKER_REPO))
       /\ ImageOf(registry, LatestTag(DOCKER_REPO))
            = ImageOf(registry, imageTag)
  /\ \A i \in 1..Len(log) :
       log[i].step \in {"kubectl apply deployment", "kubectl apply service"} =>
         /\ \E j \in 1..(i - 1) : log[j] = Entry("docker push tag", TRUE)
         /\ \E j \in 1..(i - 1) : log[j] = Entry("docker push latest", TRUE)
         /\ RunImageAt(imageTag)
         /\ RunImageAt(LatestTag(DOCKER_REPO))

\* A successful run whose image build needed its second attempt, on an
\* agent and a registry that held an older latest.
C8_Witness ==
  /\ result = "SUCCESS"
  /\ buildAttempts = 2
  /\ cluster = {"deployment", "service"}
  /\ ImageOf(registry, LatestTag(DOCKER_REPO)) = 2

\* C9: IMAGE_TAG is <DOCKER_REPO>:<BUILD_NUMBER>-<short commit> from the
\* moment stage 3 sets it, the image is built and pushed under that tag,
\* and the success message reports it; the tag is a function of the build
\* number and the checked-out revision.
C9_ImageTagDeterministic ==
  /\ imageTag \in {<<>>, ExpectedTag}
  /\ buildAttempts > 0 => imageTag = ExpectedTag
  /\ \A p \in localImages \cup registry :
       p[2] # OldImage => p[1] \in {ExpectedTag, LatestTag(DOCKER_REPO)}
  /\ pc \in {"taglatest", "pushlatest"} => RunImageAt(ExpectedTag)
  /\ result = "SUCCESS" =>
       /\ RunImageAt(ExpectedTag)
       /\ message = <<"Deployed", ExpectedTag>>

\* Build 2 of revision 9f8e7d6 ended in success.
C9_Witness ==
  /\ result = "SUCCESS"
  /\ buildNumber = 2
  /\ commit[1] = "9f8e7d6"
  /\ message = <<"Deployed", <<DOCKER_REPO, 2, "9f8e7d6">>>>

\* C10 as claimed: a failing image build is retried twice before stage 3
\* fails (three attempts), and nothing but the image build is executed
\* more than once in a run.
C10_OnlyBuildRetriedTwice ==
  /\ failedStage = 3 => Count("docker build") = 3
  /\ \A i \in 1..Len(log) :
       log[i].step # "docker build" => Count(log[i].step) <= 1
  /\ IntegrationScriptRuns <= 1

\* The tool invocations in the order the stages list them.  The three of
\* stage 4 belong to two branches that run side by side.
StepOrder ==
  <<"checkout scm", "git rev-parse", "npm ci", "npm install", "npm run lint",
    "docker build", "npm test", "npm run -s integration-test",
    "npm run integration-test", "scan", "docker login", "docker push tag",
    "docker tag latest", "docker push latest", "kubeconfig", "cp k8s", "sed",
    "kubectl apply deployment", "kubectl apply service",
    "kubectl rollout status", "kubectl describe deployment",
    "kubectl get pods", "cleanWs">>

Pos(step) == CHOOSE k \in 1..Len(StepOrder) : StepOrder[k] = step

\* Stage n of the run completed successfully.
StageCompleted(n) ==
  CASE n = 1 -> Succeeded("git rev-parse")
    [] n = 2 -> (Succeeded("npm ci") \/ Succeeded("npm install"))
                  /\ Ran("npm run lint")
    [] n = 3 -> Succeeded("docker build")
    [] n = 4 -> Succeeded("npm test") /\ integ = "passed"
    [] n = 5 -> Ran("scan")
    [] n = 6 -> Succeeded("docker push latest")
    [] n = 7 -> Succeeded("kubectl rollout status")
    [] OTHER -> FALSE

\* Every step of the log follows the steps of the earlier stages, and in
\* its own stage the steps before it; only the two branches of stage 4
\* interleave, and only the image build repeats.
StepsInOrder ==
  \A i, j \in 1..Len(log) :
    i < j =>
      /\ StageOf(log[i].step) <= StageOf(log[j].step)
      /\ (StageOf(log[i].step) # 4 \/ StageOf(log[j].step) # 4) =>
           \/ Pos(log[i].step) < Pos(log[j].step)
           \/ log[i].step = "docker build" /\ log[j].step = "docker build"
      /\ (log[i].step = "npm run integration-test") =>
           log[j].step # "npm run -s integration-test"

\* A stage runs a step only after every earlier stage completed
\* successfully.
StagesGated ==
  \A i \in 1..Len(log) :
    \A n \in 1..7 :
      (n < StageOf(log[i].step) /\ StageOf(log[i].step) <= 7) =>
        StageCompleted(n)

IntegrationScriptFailed ==
  /\ hasIntegrationScript
  /\ \/ Failed("npm run -s integration-test")
     \/ Failed("npm run integration-test")

\* C14 as claimed: when the integration-test script is defined and exits
\* non-zero, the 'Integration Tests' branch fails and the run ends in
\* failure; the branch passes without a passing script only when no
\* script is defined.
C14_IntegrationFailureFailsRun ==
  /\ IntegrationScriptFailed =>
       /\ integ = "failed"
       /\ result # "SUCCESS"
       /\ pc = "done" => result = "FAILURE"
  /\ (integ = "passed" /\ ~Succeeded("npm run integration-test")) =>
       ~hasIntegrationScript


\* C15: in every run that ends in success the deployment applied to the
\* cluster references the IMAGE_TAG this run built and pushed, the image the
\* message "Deployed <IMAGE_TAG>" names, whether or not the manifest
\* contains IMAGE_TAG_PLACEHOLDER.
C15_DeployedImageIsImageTag ==
  result = "SUCCESS" =>
    /\ message = <<"Deployed", imageTag>>
    /\ HasTag(registry, imageTag)
    /\ deployed.image = imageTag

\* C16: a run that reaches the rollout verification and whose applied pods
\* become ready within the 120 s ends in success: the verification watches
\* the deployment the applied manifest creates, which bears APP_NAME.
C16_ReadyRolloutSucceeds ==
  podsReady = "ready" =>
    /\ Watched(APP_NAME) = deployed
    /\ Succeeded("kubectl rollout status")
    /\ pc = "done" => result = "SUCCESS"


InstallFailed == Failed("npm ci") \/ Failed("npm install")

\* C17: in stage 2 a lint failure is non-blocking and an install failure is
\* blocking: a run whose lint exits non-zero goes on to stage 3, and a run
\* whose npm ci / npm install exits non-zero fails at stage 2 and runs no
\* step of a later stage.
C17_LintNonBlockingInstallBlocking ==
  /\ Failed("npm run lint") =>
       /\ failedStage # 2
       /\ pc = "settag" \/ imageTag # <<>>
  /\ InstallFailed =>
       /\ failedStage = 2
       /\ ~Ran("npm run lint")
       /\ imageTag = <<>>
       /\ \A n \in 3..7 : StageSteps(n) = {}
       /\ pc = "done" => result = "FAILURE"

C17_Witness ==
  /\ Failed("npm run lint")
  /\ Ran("docker build")
  /\ result = "SUCCESS"

====
